---- MODULE Spec2Model ----
(***************************************************************************)
(* The puzzle engine of bevy-taquin-3d: the Taquin resource (taquin.rs),   *)
(* the tile components (tile.rs) and the systems that act on them.         *)
(*                                                                         *)
(* Tile entities are numbered 0..tiles_nb-1 in the order setup_tiles       *)
(* spawns them (row-major).  A component that is a marker (TileSelected,   *)
(* EmptyTile, TileLerp) is the set of entities that carry it.              *)
(***************************************************************************)
EXTENDS Integers, Sequences, FiniteSets, TLC

VARIABLES
    size,         \* Taquin.size
    tiles_nb,     \* Taquin.tiles_nb
    tiles,        \* Taquin.tiles, indexed tiles[j][i] (row j, column i)
    is_shuffled,  \* Taquin.is_shuffled
    app_state,    \* AppState
    coords,       \* the TileCoordinates component of every tile entity
    selected,     \* the entities that carry TileSelected
    empty,        \* the entities that carry EmptyTile
    lerp,         \* the entities that carry TileLerp
    pc,           \* "idle", or "do_shuffle" while shuffle's loop is running
    it,           \* the index _i of do_shuffle's for loop
    op,           \* the system that ran last
    events,       \* the events that system sent, in order
    nswaps,       \* the calls of swap_tiles so far (bounds the exploration)
    root,         \* the grid a test run was constructed from (SlideSpec only)
    ran,          \* the systems that have run in the current frame
    commands,     \* the commands queued in the current frame, applied at its end
    solved_unread,  \* the TaquinSolved events on_event's reader has not read yet
    tada,         \* the AudioBundles spawned since the last accepted shuffle
    shuffled_once,  \* a shuffle has been accepted at some time
    order,        \* the order in which do_shuffle's query yields the tile entities
    probe,        \* the last call of TileValue::is_empty: its value and its result
    move_counter, \* MoveCounter.0 of the GUI
    gui_unread,   \* per GUI listener, the events its on_event reader has not read yet
    gui_ran,      \* the GUI listeners whose run condition was evaluated in the current frame
    moved_since   \* the TileMoved sent since the last TaquinShuffled or TaquinSolved

\* the variables of the frame structure (TickSpec only)
tick_vars == <<ran, commands, solved_unread, tada, shuffled_once>>

\* the variables of the GUI listeners (GuiSpec only)
gui_vars == <<move_counter, gui_unread, gui_ran, moved_since>>

vars == <<size, tiles_nb, tiles, is_shuffled, app_state, coords, selected,
          empty, lerp, pc, it, op, events, nswaps, root, tick_vars, gui_vars, order, probe>>

----------------------------------------------------------------------------
(* Bounds of the exploration *)

\* the iterations of one do_shuffle batch whose random draws are explored
\* freely; the remaining iterations of the batch draw n1 = n2
MaxIters == 2
\* the calls of swap_tiles explored in one run
MaxSwaps == 2

----------------------------------------------------------------------------
(* i8 arithmetic *)

\* a value wrapped into the range of i8
I8(x) == ((x + 128) % 256) - 128

\* the sizes TaquinPlugin is built with in the explored runs of the game:
\* the configuration is a puzzle dimension of at least 2
SizeInputs == {2, 3}

\* the sizes Taquin::new is called with when the constructor is the subject
BuildSizes == {0, 1, 2, 3}

Directions == {"Left", "Right", "Up", "Down"}
\* the key codes of the KeyboardInput events delivered to the systems
KeyCodes == Directions \cup {"Space", "R", "T"}

----------------------------------------------------------------------------
(* tile.rs *)

\* TileCoordinates::new
TileCoordinates_new(ci, cj) == [i |-> ci, j |-> cj]

\* impl Add<(i8, i8)> for TileCoordinates
Add(c, di, dj) == [i |-> c.i + di, j |-> c.j + dj]

\* get_neighbours without its last element, self + (0, -1)
get_neighbours_without_last(c) == {Add(c, 1, 0), Add(c, 0, 1), Add(c, -1, 0)}

\* TileCoordinates::get_neighbours
get_neighbours(c) == {Add(c, 1, 0), Add(c, 0, 1), Add(c, -1, 0), Add(c, 0, -1)}

\* is_neighbour_of with the four diagonal cells counted as neighbours
is_neighbour_of_diagonal(c, other) ==
    other \in get_neighbours(c) \cup
        {Add(c, 1, 1), Add(c, 1, -1), Add(c, -1, 1), Add(c, -1, -1)}

\* TileCoordinates::is_neighbour_of
is_neighbour_of(c, other) == other \in get_neighbours(c)

\* TileValue::is_empty
is_empty(v, taquin_size) == v = I8(taquin_size * taquin_size)

----------------------------------------------------------------------------
(* taquin.rs: impl Taquin *)

\* Taquin::new.  The product is an i8 and wraps where the build does not
\* check the overflow; tiles_nb keeps the wrapped value (the cast to usize
\* of a negative i8 adds 2^64 to it)
Taquin_new(sz) ==
    [size |-> sz, tiles_nb |-> I8(sz * sz), tiles |-> <<>>, is_shuffled |-> FALSE]

\* self.tiles.iter().flatten(): the row-major reading, indexed from 0
Flatten(t, n) == [k \in 0..(n * n - 1) |-> t[k \div n][k % n]]

\* get_inversion_count with the two tests against tiles_nb left out, so
\* that the pairs of the sentinel are counted
get_inversion_count_with_sentinel(t, n, nb) ==
    LET flat_tiles == Flatten(t, n)
    IN  Cardinality({p \in (0..(nb - 2)) \X (1..(nb - 1)) :
            /\ p[1] + 1 <= p[2]
            /\ flat_tiles[p[1]] > flat_tiles[p[2]]})

\* Taquin::get_inversion_count
get_inversion_count(t, n, nb) ==
    LET flat_tiles == Flatten(t, n)
    IN  Cardinality({p \in (0..(nb - 2)) \X (1..(nb - 1)) :
            /\ p[1] + 1 <= p[2]
            /\ flat_tiles[p[1]] # I8(nb)
            /\ flat_tiles[p[2]] # I8(nb)
            /\ flat_tiles[p[1]] > flat_tiles[p[2]]})

\* get_empty_tile_coordinates with the row and the column exchanged in
\* the coordinate it returns
get_empty_tile_coordinates_transposed(t, n, nb) ==
    LET hits == {k \in 0..(n * n - 1) : t[k \div n][k % n] = I8(nb)}
        last == CHOOSE k \in hits : \A h \in hits : h <= k
    IN  IF hits = {} THEN TileCoordinates_new(0, 0)
        ELSE TileCoordinates_new(last \div n, last % n)

\* Taquin::get_empty_tile_coordinates: the last cell, in row-major order,
\* that holds tiles_nb; (0, 0) when no cell does
get_empty_tile_coordinates(t, n, nb) ==
    LET hits == {k \in 0..(n * n - 1) : t[k \div n][k % n] = I8(nb)}
        last == CHOOSE k \in hits : \A h \in hits : h <= k
    IN  IF hits = {} THEN TileCoordinates_new(0, 0)
        ELSE TileCoordinates_new(last % n, last \div n)

\* is_solvable with the odd sizes decided by the row of the empty cell
\* instead of the inversion count
is_solvable_by_row(t, n, nb) ==
    LET inversion_count == get_inversion_count(t, n, nb)
        empty_tile_coordinates == get_empty_tile_coordinates(t, n, nb)
    IN  IF n % 2 = 1 THEN empty_tile_coordinates.j % 2 = 0
        ELSE IF empty_tile_coordinates.j % 2 = 1 THEN inversion_count % 2 = 0
        ELSE inversion_count % 2 = 1

\* is_solvable with the two verdicts of the even sizes exchanged
is_solvable_rows_inverted(t, n, nb) ==
    LET inversion_count == get_inversion_count(t, n, nb)
        empty_tile_coordinates == get_empty_tile_coordinates(t, n, nb)
    IN  IF n % 2 = 1 THEN inversion_count % 2 = 0
        ELSE IF empty_tile_coordinates.j % 2 = 1 THEN inversion_count % 2 = 1
        ELSE inversion_count % 2 = 0

\* is_solvable with the even sizes decided by the inversion count alone,
\* whatever the row of the empty cell
is_solvable_ignores_row(t, n, nb) ==
    LET inversion_count == get_inversion_count(t, n, nb)
    IN  inversion_count % 2 = 0

\* Taquin::is_solvable
is_solvable(t, n, nb) ==
    LET inversion_count == get_inversion_count(t, n, nb)
        empty_tile_coordinates == get_empty_tile_coordinates(t, n, nb)
    IN  IF n % 2 = 1 THEN inversion_count % 2 = 0
        ELSE IF empty_tile_coordinates.j % 2 = 1 THEN inversion_count % 2 = 0
        ELSE inversion_count % 2 = 1

\* is_solved with the last window of two cells left out
is_solved_short(t, n) ==
    LET flat == Flatten(t, n)
    IN  {k \in 0..(n * n - 3) : flat[k] > flat[k + 1]} = {}

\* Taquin::is_solved: no window of two consecutive cells has a[0] > a[1]
is_solved(t, n) ==
    LET flat == Flatten(t, n)
    IN  {k \in 0..(n * n - 2) : flat[k] > flat[k + 1]} = {}

\* swap_tiles without the temporary: cell b gets back what was just
\* written to cell a
swap_tiles_no_temp(t, a, b) ==
    LET t1 == [t EXCEPT ![a.j][a.i] = t[b.j][b.i]]
    IN  [t1 EXCEPT ![b.j][b.i] = t1[a.j][a.i]]

\* swap_tiles that leaves the grid alone unless a and b are neighbours
swap_tiles_neighbours_only(t, a, b) ==
    LET temp_tile == t[a.j][a.i]
        t1 == [t EXCEPT ![a.j][a.i] = t[b.j][b.i]]
    IN  IF is_neighbour_of(a, b) THEN [t1 EXCEPT ![b.j][b.i] = temp_tile] ELSE t

\* Taquin::swap_tiles
swap_tiles(t, a, b) ==
    LET temp_tile == t[a.j][a.i]
        t1 == [t EXCEPT ![a.j][a.i] = t[b.j][b.i]]
    IN  [t1 EXCEPT ![b.j][b.i] = temp_tile]

\* one pass of the loop with Up stepping the way Down does
StepCoordinates_up_is_down(c, n, direction) ==
    CASE direction = "Left" ->
            LET ni == c.i - 1 IN [c EXCEPT !.i = IF ni < 0 THEN n - 1 ELSE ni]
      [] direction = "Right" ->
            LET ni == c.i + 1 IN [c EXCEPT !.i = IF ni >= n THEN 0 ELSE ni]
      [] direction \in {"Up", "Down"} ->
            LET nj == c.j + 1 IN [c EXCEPT !.j = IF nj >= n THEN 0 ELSE nj]

\* StepCoordinates without the wraparound of Left at column 0
StepCoordinates_left_unwrapped(c, n, direction) ==
    CASE direction = "Left" -> [c EXCEPT !.i = c.i - 1]
      [] direction = "Right" ->
            LET ni == c.i + 1 IN [c EXCEPT !.i = IF ni >= n THEN 0 ELSE ni]
      [] direction = "Up" ->
            LET nj == c.j - 1 IN [c EXCEPT !.j = IF nj < 0 THEN n - 1 ELSE nj]
      [] direction = "Down" ->
            LET nj == c.j + 1 IN [c EXCEPT !.j = IF nj >= n THEN 0 ELSE nj]

\* one pass of the loop of get_next_selection_coordinates for a direction
StepCoordinates(c, n, direction) ==
    CASE direction = "Left" ->
            LET ni == c.i - 1 IN [c EXCEPT !.i = IF ni < 0 THEN n - 1 ELSE ni]
      [] direction = "Right" ->
            LET ni == c.i + 1 IN [c EXCEPT !.i = IF ni >= n THEN 0 ELSE ni]
      [] direction = "Up" ->
            LET nj == c.j - 1 IN [c EXCEPT !.j = IF nj < 0 THEN n - 1 ELSE nj]
      [] direction = "Down" ->
            LET nj == c.j + 1 IN [c EXCEPT !.j = IF nj >= n THEN 0 ELSE nj]

\* the loop of get_next_selection_coordinates left after its first pass,
\* whatever the cell holds
SelectionLoop_once(t, n, c, direction) == StepCoordinates(c, n, direction)

\* the loop of get_next_selection_coordinates: step until the cell is not
\* the empty one
RECURSIVE SelectionLoop(_, _, _, _)
SelectionLoop(t, n, c, direction) ==
    LET coordinates == StepCoordinates(c, n, direction)
    IN  IF ~is_empty(t[coordinates.j][coordinates.i], n) THEN coordinates
        ELSE SelectionLoop(t, n, coordinates, direction)

\* the passes the loop of get_next_selection_coordinates makes before it
\* returns
RECURSIVE SelectionLoopPasses(_, _, _, _)
SelectionLoopPasses(t, n, c, direction) ==
    LET coordinates == StepCoordinates(c, n, direction)
    IN  IF ~is_empty(t[coordinates.j][coordinates.i], n) THEN 1
        ELSE 1 + SelectionLoopPasses(t, n, coordinates, direction)

\* Taquin::get_next_selection_coordinates
get_next_selection_coordinates(t, n, current_coordinates, direction) ==
    IF direction \in Directions
    THEN SelectionLoop(t, n, current_coordinates, direction)
    ELSE current_coordinates

----------------------------------------------------------------------------
(* Setup: TaquinPlugin::build and setup_tiles *)

Entities == DOMAIN coords

\* the listeners GuiPlugin adds to Update, named by the event each waits for
GuiListeners == {"TaquinShuffled", "TaquinSolved", "TileMoved"}

\* no frame has begun: nothing run, queued, sent or played
NoFrame ==
    /\ ran = {}
    /\ commands = {}
    /\ solved_unread = 0
    /\ tada = 0
    /\ shuffled_once = FALSE
    /\ order = <<>>
    /\ probe = <<>>
    /\ move_counter = 0
    /\ gui_unread = [l \in GuiListeners |-> 0]
    /\ gui_ran = {}
    /\ moved_since = 0

\* the state after TaquinPlugin::build inserted Taquin::new(sz); the
\* assets are loaded and the app is about to enter SetupTiles
Built(sz) ==
    LET taquin == Taquin_new(sz)
    IN  /\ size = taquin.size
        /\ tiles_nb = taquin.tiles_nb
        /\ tiles = taquin.tiles
        /\ is_shuffled = taquin.is_shuffled
        /\ app_state = "SetupTiles"
        /\ coords = <<>>
        /\ selected = {}
        /\ empty = {}
        /\ lerp = {}
        /\ pc = "idle"
        /\ it = 0
        /\ op = "build"
        /\ events = <<>>
        /\ nswaps = 0
        /\ root = "none"
        /\ NoFrame

Init == \E sz \in SizeInputs : Built(sz)

\* the value of cell (i, j) counted from 0 instead of 1
SetupValue_from_zero(ci, cj, n) ==
    IF ci = n - 1 /\ cj = n - 1 THEN I8(n * n) ELSE I8(cj * n + ci)

\* setup_tiles: the value of cell (i, j)
SetupValue(ci, cj, n) ==
    IF ci = n - 1 /\ cj = n - 1 THEN I8(n * n) ELSE I8(cj * n + ci + 1)

\* setup_tiles (OnEnter(AppState::SetupTiles))
setup_tiles ==
    /\ app_state = "SetupTiles"
    /\ tiles' = [cj \in 0..(size - 1) |-> [ci \in 0..(size - 1) |-> SetupValue(ci, cj, size)]]
    /\ coords' = [k \in 0..(size * size - 1) |-> TileCoordinates_new(k % size, k \div size)]
    /\ empty' = {k \in 0..(size * size - 1) : k % size = size - 1 /\ k \div size = size - 1}
    /\ selected' = {k \in 0..(size * size - 1) :
                        /\ ~(k % size = size - 1 /\ k \div size = size - 1)
                        /\ k % size = 0 /\ k \div size = 0}
    /\ app_state' = "Running"
    /\ op' = "setup_tiles"
    /\ events' = <<>>
    /\ UNCHANGED <<size, tiles_nb, is_shuffled, lerp, pc, it, nswaps, root>>

----------------------------------------------------------------------------
(* The systems of TaquinPlugin and TilePlugin.  A system runs to its end   *)
(* in one step and the commands it queued are applied with it; shuffle,    *)
(* whose loop need not end, is the exception and takes one step per        *)
(* iteration of do_shuffle's for loop.                                     *)

\* move_tile_selection without the removal of TileSelected from the tile
\* that was selected
move_tile_selection_keep(key_code) ==
    /\ app_state = "Running"
    /\ pc = "idle"
    /\ op' = "move_tile_selection"
    /\ events' = <<>>
    /\ IF Cardinality(selected) # 1
       THEN UNCHANGED selected
       ELSE LET selected_tile_entity == CHOOSE e \in selected : TRUE
                selected_tile_coordinates == coords[selected_tile_entity]
                selected_tile_new_coordinates ==
                    get_next_selection_coordinates(tiles, size, selected_tile_coordinates, key_code)
                matching == {e \in DOMAIN coords \ selected : coords[e] = selected_tile_new_coordinates}
            IN  IF selected_tile_new_coordinates # selected_tile_coordinates /\ matching # {}
                THEN selected' = selected \cup matching
                ELSE UNCHANGED selected
    /\ UNCHANGED <<size, tiles_nb, tiles, is_shuffled, app_state, coords, empty,
                   lerp, pc, it, nswaps, root>>

\* move_tile_selection, for the key code of a released key
move_tile_selection(key_code) ==
    /\ app_state = "Running"
    /\ pc = "idle"
    /\ op' = "move_tile_selection"
    /\ events' = <<>>
    /\ IF Cardinality(selected) # 1
       THEN UNCHANGED selected
       ELSE LET selected_tile_entity == CHOOSE e \in selected : TRUE
                selected_tile_coordinates == coords[selected_tile_entity]
                selected_tile_new_coordinates ==
                    get_next_selection_coordinates(tiles, size, selected_tile_coordinates, key_code)
                matching == {e \in Entities \ selected : coords[e] = selected_tile_new_coordinates}
            IN  IF selected_tile_new_coordinates # selected_tile_coordinates /\ matching # {}
                THEN selected' = (selected \ {selected_tile_entity}) \cup matching
                ELSE UNCHANGED selected
    /\ UNCHANGED <<size, tiles_nb, tiles, is_shuffled, app_state, coords, empty,
                   lerp, pc, it, nswaps, root>>

\* the entities of move_selected_tile's two queries
EmptyQuery == empty \ selected
SelectedQuery == selected \ empty

\* the events of move_selected_tile with the solved test negated
move_events_negated(moves, t, n) ==
    (IF moves THEN <<"TileMoved">> ELSE <<>>)
        \o (IF ~is_solved(t, n) THEN <<"TaquinSolved">> ELSE <<>>)

\* the events of move_selected_tile with TileMoved sent a second time
move_events_twice(moves, t, n) ==
    (IF moves THEN <<"TileMoved", "TileMoved">> ELSE <<>>)
        \o (IF is_solved(t, n) THEN <<"TaquinSolved">> ELSE <<>>)

\* the events move_selected_tile sends: TileMoved inside the test of
\* adjacency, TaquinSolved after it, on the grid as the call leaves it
move_events(moves, t, n) ==
    (IF moves THEN <<"TileMoved">> ELSE <<>>)
        \o (IF is_solved(t, n) THEN <<"TaquinSolved">> ELSE <<>>)

\* move_selected_tile, in a frame where Space was just released
move_selected_tile ==
    /\ app_state = "Running"
    /\ lerp = {}
    /\ pc = "idle"
    /\ op' = "move_selected_tile"
    /\ IF Cardinality(EmptyQuery) # 1 \/ Cardinality(SelectedQuery) # 1
       THEN /\ events' = <<>>
            /\ UNCHANGED <<tiles, coords, lerp, nswaps>>
       ELSE LET empty_tile == CHOOSE e \in EmptyQuery : TRUE
                entity == CHOOSE e \in SelectedQuery : TRUE
                moves == is_neighbour_of(coords[entity], coords[empty_tile])
                new_coords == [coords EXCEPT ![empty_tile] = coords[entity],
                                             ![entity] = coords[empty_tile]]
                new_tiles == IF moves
                             THEN swap_tiles(tiles, new_coords[entity], new_coords[empty_tile])
                             ELSE tiles
            IN  /\ moves => nswaps < MaxSwaps
                /\ tiles' = new_tiles
                /\ coords' = IF moves THEN new_coords ELSE coords
                /\ lerp' = IF moves THEN lerp \cup {entity} ELSE lerp
                /\ nswaps' = IF moves THEN nswaps + 1 ELSE nswaps
                /\ events' = move_events(moves, new_tiles, size)
    /\ UNCHANGED <<size, tiles_nb, is_shuffled, app_state, selected, empty, pc, it, root>>

\* shuffle, in a frame where R was just released: the loop is entered
shuffle_begin ==
    /\ app_state = "Running"
    /\ lerp = {}
    /\ pc = "idle"
    /\ pc' = "do_shuffle"
    /\ it' = 0
    /\ op' = "do_shuffle"
    /\ events' = <<>>
    /\ UNCHANGED <<size, tiles_nb, tiles, is_shuffled, app_state, coords, selected,
                   empty, lerp, nswaps, root>>

\* do_shuffle's second draw without its effect: tile2 is never found
DrawKind_second_none(n1, n2, nb) == IF n1 = n2 THEN "continue" ELSE "none"

\* what one iteration of do_shuffle's for loop does with the draws n1, n2:
\* the second nth() continues after the first, so tile2 is the element
\* n1 + n2 + 1 of the query, and is None past its end
DrawKind(n1, n2, nb) ==
    IF n1 = n2 THEN "continue"
    ELSE IF n1 + n2 + 1 < nb THEN "swap"
    ELSE "none"

\* what the iterations of the for loop can do, over all draws n1, n2
DrawKinds(nb) == {DrawKind(n1, n2, nb) : n1 \in 0..(nb - 1), n2 \in 0..(nb - 1)}

\* one iteration of do_shuffle's for loop.  The order in which the query
\* yields the entities is the engine's, so any two entities can be the pair
\* (tile1, tile2); the exchange is symmetric in the two
do_shuffle_iter ==
    /\ pc = "do_shuffle"
    /\ it < tiles_nb * tiles_nb
    /\ it < MaxIters
    /\ \E kind \in DrawKinds(tiles_nb) :
          IF kind = "swap"
          THEN /\ nswaps < MaxSwaps
               /\ \E tile1 \in Entities, tile2 \in Entities :
                     /\ tile1 < tile2
                     /\ LET new_coords == [coords EXCEPT ![tile1] = coords[tile2],
                                                         ![tile2] = coords[tile1]]
                        IN  /\ coords' = new_coords
                            /\ tiles' = swap_tiles(tiles, new_coords[tile1], new_coords[tile2])
               /\ nswaps' = nswaps + 1
          ELSE UNCHANGED <<tiles, coords, nswaps>>
    /\ it' = it + 1
    /\ op' = "do_shuffle"
    /\ events' = <<>>
    /\ UNCHANGED <<size, tiles_nb, is_shuffled, app_state, selected, empty, lerp, pc, root>>

\* do_shuffle's return value without the test that the grid is not solved
do_shuffle_result_solvable_only(t, n, nb) == is_solvable(t, n, nb)

\* the value do_shuffle returns
do_shuffle_result(t, n, nb) == ~is_solved(t, n) /\ is_solvable(t, n, nb)

\* shuffle_end with the flag set and the event sent before the test of
\* do_shuffle's result, so that a rejected batch sets and sends them too
shuffle_end_before_test ==
    /\ pc = "do_shuffle"
    /\ is_shuffled' = TRUE
    /\ events' = <<"TaquinShuffled">>
    /\ IF do_shuffle_result(tiles, size, tiles_nb)
       THEN /\ pc' = "idle"
            /\ op' = "shuffle"
       ELSE /\ op' = "do_shuffle"
            /\ UNCHANGED pc
    /\ it' = 0
    /\ UNCHANGED <<size, tiles_nb, tiles, app_state, coords, selected, empty, lerp,
                   nswaps, root>>

\* the rest of a batch (every remaining draw has n1 = n2) and the test of
\* shuffle's loop: leave on true, start the next batch on false
shuffle_end ==
    /\ pc = "do_shuffle"
    /\ IF do_shuffle_result(tiles, size, tiles_nb)
       THEN /\ is_shuffled' = TRUE
            /\ events' = <<"TaquinShuffled">>
            /\ pc' = "idle"
            /\ op' = "shuffle"
       ELSE /\ events' = <<>>
            /\ op' = "do_shuffle"
            /\ UNCHANGED <<is_shuffled, pc>>
    /\ it' = 0
    /\ UNCHANGED <<size, tiles_nb, tiles, app_state, coords, selected, empty, lerp,
                   nswaps, root>>

\* move_tile, in the frame where the tile reaches its target
move_tile ==
    /\ app_state = "Running"
    /\ pc = "idle"
    /\ Cardinality(lerp) = 1
    /\ lerp' = {}
    /\ op' = "move_tile"
    /\ events' = <<>>
    /\ UNCHANGED <<size, tiles_nb, tiles, is_shuffled, app_state, coords, selected,
                   empty, pc, it, nswaps, root>>

Next ==
    \/ setup_tiles /\ UNCHANGED <<tick_vars, gui_vars, order, probe>>
    \/ \E key_code \in KeyCodes : move_tile_selection(key_code) /\ UNCHANGED <<tick_vars, gui_vars, order, probe>>
    \/ move_selected_tile /\ UNCHANGED <<tick_vars, gui_vars, order, probe>>
    \/ shuffle_begin /\ UNCHANGED <<tick_vars, gui_vars, order, probe>>
    \/ do_shuffle_iter /\ UNCHANGED <<tick_vars, gui_vars, order, probe>>
    \/ shuffle_end /\ UNCHANGED <<tick_vars, gui_vars, order, probe>>
    \/ move_tile /\ UNCHANGED <<tick_vars, gui_vars, order, probe>>

Spec == Init /\ [][Next]_vars

\* the same systems, for every size Taquin::new is given
BuildInit == \E sz \in BuildSizes : Built(sz)

BuildSpec == BuildInit /\ [][Next]_vars

----------------------------------------------------------------------------
(* main.rs: the free functions of the earlier snapshot *)

\* TilePosition::new
TilePosition_new(pi, pj) == [i |-> pi, j |-> pj]

\* get_inversion_count(taquin) of main.rs
main_get_inversion_count(t, n, nb) ==
    LET flat_tiles == Flatten(t, n)
    IN  Cardinality({p \in (0..(nb - 2)) \X (1..(nb - 1)) :
            /\ p[1] + 1 <= p[2]
            /\ flat_tiles[p[1]] # I8(nb)
            /\ flat_tiles[p[2]] # I8(nb)
            /\ flat_tiles[p[1]] > flat_tiles[p[2]]})

\* is_solvable(taquin, empty_tile_position) of main.rs
main_is_solvable(t, n, nb, empty_tile_position) ==
    LET inversion_count == main_get_inversion_count(t, n, nb)
    IN  IF n % 2 = 1 THEN empty_tile_position.j % 2 = 0
        ELSE IF empty_tile_position.j % 2 = 1 THEN inversion_count % 2 = 0
        ELSE inversion_count % 2 = 1

----------------------------------------------------------------------------
(* The Update schedule, frame by frame.  The systems of one frame run in   *)
(* any order the schedule allows: the only ordering constraint is the      *)
(* chain of on_taquin_solved_play_tada before                              *)
(* on_taquin_solved_reset_is_shuffled.  Every system runs once per frame;  *)
(* a run that returns at one of its tests (the key was not released, the   *)
(* query has no single match, the selection stays where it is) leaves the  *)
(* world as it is wherever it is placed in the frame, so only the runs     *)
(* that get past their tests are steps, and the frames differ by the       *)
(* systems that take a step in them.  Commands are queued and applied when *)
(* the frame ends.  shuffle is one step here: its loop run to acceptance.  *)

\* the size TaquinPlugin is built with in the explored frames: the schedule
\* and the handlers of the events are the same for every size
TickSizes == {2}

\* the number of events e in a sequence of events
Count(evs, e) == Cardinality({k \in DOMAIN evs : evs[k] = e})

\* a queued command on an entity
Command(k, e) == [kind |-> k, entity |-> e]

\* the entities of the queued commands of one kind
Queued(k) == {c.entity : c \in {d \in commands : d.kind = k}}

\* setup_tiles; the first frame of the Running state follows
OnEnter_setup_tiles == setup_tiles /\ UNCHANGED tick_vars

\* move_tile_selection in a frame: the released key is the next unread
\* KeyboardInput event; TileSelected is removed and inserted by commands
Update_move_tile_selection(key_code) ==
    /\ app_state = "Running"
    /\ "move_tile_selection" \notin ran
    /\ Cardinality(selected) = 1
    /\ LET selected_tile_entity == CHOOSE e \in selected : TRUE
           selected_tile_coordinates == coords[selected_tile_entity]
           selected_tile_new_coordinates ==
               get_next_selection_coordinates(tiles, size, selected_tile_coordinates, key_code)
           matching == {e \in Entities \ selected : coords[e] = selected_tile_new_coordinates}
       IN  /\ selected_tile_new_coordinates # selected_tile_coordinates
           /\ matching # {}
           /\ commands' = commands
                   \cup {Command("remove_TileSelected", selected_tile_entity)}
                   \cup {Command("insert_TileSelected", e) : e \in matching}
    /\ ran' = ran \cup {"move_tile_selection"}
    /\ op' = "move_tile_selection"
    /\ events' = <<>>
    /\ UNCHANGED <<size, tiles_nb, tiles, is_shuffled, app_state, coords, selected, empty,
                   lerp, pc, it, nswaps, root, solved_unread, tada, shuffled_once>>

\* on_event::<TaquinSolved>() evaluated to false: the two chained systems
\* are skipped for this frame.  The place of the evaluation in the frame
\* matters only while move_selected_tile, the sender, can still run
Update_on_event_skipped ==
    /\ app_state = "Running"
    /\ "on_event" \notin ran
    /\ solved_unread = 0
    /\ lerp = {} /\ "move_selected_tile" \notin ran
    /\ ran' = ran \cup {"on_event"}
    /\ op' = "on_event"
    /\ events' = <<>>
    /\ UNCHANGED <<size, tiles_nb, tiles, is_shuffled, app_state, coords, selected, empty,
                   lerp, pc, it, nswaps, root, commands, solved_unread, tada,
                   shuffled_once>>

\* on_taquin_solved_play_tada without its test of is_shuffled
Update_on_taquin_solved_play_tada_always ==
    /\ app_state = "Running"
    /\ "on_event" \notin ran
    /\ solved_unread > 0
    /\ solved_unread' = 0
    /\ ran' = ran \cup {"on_event", "on_taquin_solved_play_tada"}
    /\ tada' = tada + 1
    /\ op' = "on_taquin_solved_play_tada"
    /\ events' = <<>>
    /\ UNCHANGED <<size, tiles_nb, tiles, is_shuffled, app_state, coords, selected, empty,
                   lerp, pc, it, nswaps, root, commands, shuffled_once>>

\* on_event::<TaquinSolved>() evaluated to true, its reader having read
\* every event sent so far, and on_taquin_solved_play_tada, the first
\* system of the chain, run on it
Update_on_taquin_solved_play_tada ==
    /\ app_state = "Running"
    /\ "on_event" \notin ran
    /\ solved_unread > 0
    /\ solved_unread' = 0
    /\ ran' = ran \cup {"on_event", "on_taquin_solved_play_tada"}
    /\ tada' = IF ~is_shuffled THEN tada ELSE tada + 1
    /\ op' = "on_taquin_solved_play_tada"
    /\ events' = <<>>
    /\ UNCHANGED <<size, tiles_nb, tiles, is_shuffled, app_state, coords, selected, empty,
                   lerp, pc, it, nswaps, root, commands, shuffled_once>>

\* on_taquin_solved_reset_is_shuffled, chained after play_tada
Update_on_taquin_solved_reset_is_shuffled ==
    /\ app_state = "Running"
    /\ "on_taquin_solved_play_tada" \in ran
    /\ "on_taquin_solved_reset_is_shuffled" \notin ran
    /\ is_shuffled' = FALSE
    /\ ran' = ran \cup {"on_taquin_solved_reset_is_shuffled"}
    /\ op' = "on_taquin_solved_reset_is_shuffled"
    /\ events' = <<>>
    /\ UNCHANGED <<size, tiles_nb, tiles, app_state, coords, selected, empty, lerp, pc,
                   it, nswaps, root, commands, solved_unread, tada, shuffled_once>>

\* move_selected_tile without the run condition on TileLerp: it runs in a
\* frame where Space was just released, animation or not
Update_move_selected_tile_ungated ==
    /\ app_state = "Running"
    /\ "move_selected_tile" \notin ran
    /\ Cardinality(EmptyQuery) = 1
    /\ Cardinality(SelectedQuery) = 1
    /\ LET empty_tile == CHOOSE e \in EmptyQuery : TRUE
           entity == CHOOSE e \in SelectedQuery : TRUE
           moves == is_neighbour_of(coords[entity], coords[empty_tile])
           new_coords == [coords EXCEPT ![empty_tile] = coords[entity],
                                        ![entity] = coords[empty_tile]]
           new_tiles == IF moves
                        THEN swap_tiles(tiles, new_coords[entity], new_coords[empty_tile])
                        ELSE tiles
       IN  /\ moves => nswaps < MaxSwaps
           /\ tiles' = new_tiles
           /\ coords' = IF moves THEN new_coords ELSE coords
           /\ commands' = IF moves
                          THEN commands \cup {Command("insert_TileLerp", entity)}
                          ELSE commands
           /\ nswaps' = IF moves THEN nswaps + 1 ELSE nswaps
           /\ events' = move_events(moves, new_tiles, size)
    /\ solved_unread' = solved_unread + Count(events', "TaquinSolved")
    /\ ran' = ran \cup {"move_selected_tile"}
    /\ op' = "move_selected_tile"
    /\ UNCHANGED <<size, tiles_nb, is_shuffled, app_state, selected, empty, lerp, pc, it,
                   root, tada, shuffled_once>>

\* move_selected_tile in a frame where Space was just released and the run
\* condition found no TileLerp; the TileLerp it inserts is a command
Update_move_selected_tile ==
    /\ app_state = "Running"
    /\ lerp = {}
    /\ "move_selected_tile" \notin ran
    /\ Cardinality(EmptyQuery) = 1
    /\ Cardinality(SelectedQuery) = 1
    /\ LET empty_tile == CHOOSE e \in EmptyQuery : TRUE
           entity == CHOOSE e \in SelectedQuery : TRUE
           moves == is_neighbour_of(coords[entity], coords[empty_tile])
           new_coords == [coords EXCEPT ![empty_tile] = coords[entity],
                                        ![entity] = coords[empty_tile]]
           new_tiles == IF moves
                        THEN swap_tiles(tiles, new_coords[entity], new_coords[empty_tile])
                        ELSE tiles
       IN  /\ moves => nswaps < MaxSwaps
           /\ tiles' = new_tiles
           /\ coords' = IF moves THEN new_coords ELSE coords
           /\ commands' = IF moves
                          THEN commands \cup {Command("insert_TileLerp", entity)}
                          ELSE commands
           /\ nswaps' = IF moves THEN nswaps + 1 ELSE nswaps
           /\ events' = move_events(moves, new_tiles, size)
    /\ solved_unread' = solved_unread + Count(events', "TaquinSolved")
    /\ ran' = ran \cup {"move_selected_tile"}
    /\ op' = "move_selected_tile"
    /\ UNCHANGED <<size, tiles_nb, is_shuffled, app_state, selected, empty, lerp, pc, it,
                   root, tada, shuffled_once>>

\* the arrangements one exchanging iteration of do_shuffle's for loop leads
\* to from the arrangement x, over the pairs of entities it can draw
ExchangedOnce(x) ==
    {LET new_coords == [x.coords EXCEPT ![p[1]] = x.coords[p[2]],
                                        ![p[2]] = x.coords[p[1]]]
     IN  [coords |-> new_coords,
          tiles |-> swap_tiles(x.tiles, new_coords[p[1]], new_coords[p[2]]),
          n |-> x.n + 1]
     : p \in {q \in Entities \X Entities : q[1] < q[2]}}

\* the arrangements up to k exchanging iterations lead to, in any number
\* of batches
RECURSIVE Batches(_, _)
Batches(S, k) ==
    IF k = 0 THEN S
    ELSE Batches(S \cup UNION {ExchangedOnce(x) : x \in S}, k - 1)

\* shuffle in a frame where R was just released and the run condition
\* found no TileLerp: batches are run until do_shuffle returns true
Update_shuffle ==
    /\ app_state = "Running"
    /\ lerp = {}
    /\ "shuffle" \notin ran
    /\ \E x \in Batches({[coords |-> coords, tiles |-> tiles, n |-> 0]},
                        IF "swap" \in DrawKinds(tiles_nb) THEN MaxSwaps - nswaps ELSE 0) :
          /\ do_shuffle_result(x.tiles, size, tiles_nb)
          /\ coords' = x.coords
          /\ tiles' = x.tiles
          /\ nswaps' = nswaps + x.n
    /\ is_shuffled' = TRUE
    /\ events' = <<"TaquinShuffled">>
    /\ tada' = 0
    /\ shuffled_once' = TRUE
    /\ ran' = ran \cup {"shuffle"}
    /\ op' = "shuffle"
    /\ UNCHANGED <<size, tiles_nb, app_state, selected, empty, lerp, pc, it, root,
                   commands, solved_unread>>

\* move_tile in the frame where the tile reaches its target: the removal
\* of TileLerp is a command
Update_move_tile ==
    /\ app_state = "Running"
    /\ "move_tile" \notin ran
    /\ Cardinality(lerp) = 1
    /\ commands' = commands \cup {Command("remove_TileLerp", e) : e \in lerp}
    /\ ran' = ran \cup {"move_tile"}
    /\ op' = "move_tile"
    /\ events' = <<>>
    /\ UNCHANGED <<size, tiles_nb, tiles, is_shuffled, app_state, coords, selected, empty,
                   lerp, pc, it, nswaps, root, solved_unread, tada, shuffled_once>>

\* the frame can end: on_event has been evaluated if an event is unread,
\* and the chain it started has run to its end
FrameComplete ==
    /\ solved_unread > 0 => "on_event" \in ran
    /\ "on_taquin_solved_play_tada" \in ran => "on_taquin_solved_reset_is_shuffled" \in ran

\* the end of the frame: the queued commands are applied
apply_deferred ==
    /\ app_state = "Running"
    /\ ran # {}
    /\ FrameComplete
    /\ selected' = (selected \ Queued("remove_TileSelected")) \cup Queued("insert_TileSelected")
    /\ lerp' = (lerp \cup Queued("insert_TileLerp")) \ Queued("remove_TileLerp")
    /\ commands' = {}
    /\ ran' = {}
    /\ op' = "apply_deferred"
    /\ events' = <<>>
    /\ UNCHANGED <<size, tiles_nb, tiles, is_shuffled, app_state, coords, empty, pc, it,
                   nswaps, root, solved_unread, tada, shuffled_once>>

TickInit == \E sz \in TickSizes : Built(sz)

TickNext ==
    \/ OnEnter_setup_tiles /\ UNCHANGED <<gui_vars, order, probe>>
    \/ \E key_code \in KeyCodes :
          Update_move_tile_selection(key_code) /\ UNCHANGED <<gui_vars, order, probe>>
    \/ Update_on_event_skipped /\ UNCHANGED <<gui_vars, order, probe>>
    \/ Update_on_taquin_solved_play_tada /\ UNCHANGED <<gui_vars, order, probe>>
    \/ Update_on_taquin_solved_reset_is_shuffled /\ UNCHANGED <<gui_vars, order, probe>>
    \/ Update_move_selected_tile /\ UNCHANGED <<gui_vars, order, probe>>
    \/ Update_shuffle /\ UNCHANGED <<gui_vars, order, probe>>
    \/ Update_move_tile /\ UNCHANGED <<gui_vars, order, probe>>
    \/ apply_deferred /\ UNCHANGED <<gui_vars, order, probe>>

TickSpec == TickInit /\ [][TickNext]_vars

----------------------------------------------------------------------------
(* The listeners of GuiPlugin in the Update schedule, next to the systems  *)
(* of TickSpec.  Each listener runs under on_event::<E>() with a reader of *)
(* its own; the three are ordered neither among themselves nor against the *)
(* systems that send the events.                                           *)

\* a system of TickSpec has run: the events it sent reach every reader
Gui_sent ==
    /\ gui_unread' = [l \in GuiListeners |-> gui_unread[l] + Count(events', l)]
    /\ moved_since' = IF Count(events', "TaquinShuffled") + Count(events', "TaquinSolved") > 0
                      THEN 0
                      ELSE moved_since + Count(events', "TileMoved")
    /\ UNCHANGED <<move_counter, gui_ran, order, probe>>

\* the system that sends the events a listener waits for
Sender(l) == IF l = "TaquinShuffled" THEN "shuffle" ELSE "move_selected_tile"

\* on_event::<E>() of a listener evaluated to false: the listener is
\* skipped for this frame.  The place of the evaluation in the frame
\* matters only while the sender can still run
Gui_on_event_skipped(l) ==
    /\ app_state = "Running"
    /\ l \notin gui_ran
    /\ gui_unread[l] = 0
    /\ lerp = {} /\ Sender(l) \notin ran
    /\ gui_ran' = gui_ran \cup {l}
    /\ UNCHANGED <<size, tiles_nb, tiles, is_shuffled, app_state, coords, selected, empty,
                   lerp, pc, it, op, events, nswaps, root, tick_vars, move_counter,
                   gui_unread, moved_since, order, probe>>

\* MoveCounter after the listener l has run: reset() in
\* taquin_shuffled_listener and on_taquin_solved_reset_gui, incr() in
\* on_tile_moved_increase_counter
Gui_counter_after(l, counter) == IF l = "TileMoved" THEN counter + 1 ELSE 0

\* on_event::<E>() of a listener evaluated to true, its reader having read
\* every event sent so far, and the listener run
Gui_listener(l) ==
    /\ l \notin gui_ran
    /\ gui_unread[l] > 0
    /\ gui_unread' = [gui_unread EXCEPT ![l] = 0]
    /\ move_counter' = Gui_counter_after(l, move_counter)
    /\ gui_ran' = gui_ran \cup {l}
    /\ UNCHANGED <<size, tiles_nb, tiles, is_shuffled, app_state, coords, selected, empty,
                   lerp, pc, it, op, events, nswaps, root, tick_vars, moved_since, order, probe>>

\* the frame can end: every listener with an unread event has had its run
\* condition evaluated
GuiFrameComplete == \A l \in GuiListeners : gui_unread[l] > 0 => l \in gui_ran

\* the end of a frame
Gui_apply_deferred ==
    /\ GuiFrameComplete
    /\ \/ apply_deferred
       \/ /\ ran = {}
          /\ gui_ran # {}
          /\ FrameComplete
          /\ UNCHANGED <<size, tiles_nb, tiles, is_shuffled, app_state, coords, selected,
                         empty, lerp, pc, it, op, events, nswaps, root, tick_vars>>
    /\ gui_ran' = {}
    /\ UNCHANGED <<move_counter, gui_unread, moved_since, order, probe>>

GuiInit == TickInit

GuiNext ==
    \/ OnEnter_setup_tiles /\ Gui_sent
    \/ \E key_code \in KeyCodes : Update_move_tile_selection(key_code) /\ Gui_sent
    \/ Update_on_event_skipped /\ Gui_sent
    \/ Update_on_taquin_solved_play_tada /\ Gui_sent
    \/ Update_on_taquin_solved_reset_is_shuffled /\ Gui_sent
    \/ Update_move_selected_tile /\ Gui_sent
    \/ Update_shuffle /\ Gui_sent
    \/ Update_move_tile /\ Gui_sent
    \/ \E l \in GuiListeners : Gui_on_event_skipped(l)
    \/ \E l \in GuiListeners : Gui_listener(l)
    \/ Gui_apply_deferred

GuiSpec == GuiInit /\ [][GuiNext]_vars

----------------------------------------------------------------------------
(* The slide graph: grids built directly, as the unit tests of taquin.rs   *)
(* build them, and explored by legal slides.  The reachable grids of       *)
(* SlideSpec are the slide orbit of the solved grid and the slide orbit of *)
(* the grid with tiles 1 and 2 exchanged, for the sizes 2 and 3.           *)

OracleSizes == {2, 3}

Cells(n) == {TileCoordinates_new(ci, cj) : ci \in 0..(n - 1), cj \in 0..(n - 1)}

\* the grid 1, 2, ..., n*n in row-major order
AscendingGrid(n) == [cj \in 0..(n - 1) |-> [ci \in 0..(n - 1) |-> cj * n + ci + 1]]

\* the ascending grid with its first two tiles exchanged
TwinGrid(n) == [AscendingGrid(n) EXCEPT ![0][0] = 2, ![0][1] = 1]

\* the grid t with the values of the cells a and b exchanged
Exchanged(t, a, b) ==
    [cj \in DOMAIN t |-> [ci \in DOMAIN t[cj] |->
        IF ci = a.i /\ cj = a.j THEN t[b.j][b.i]
        ELSE IF ci = b.i /\ cj = b.j THEN t[a.j][a.i]
        ELSE t[cj][ci]]]

Abs(x) == IF x < 0 THEN -x ELSE x
Manhattan(a, b) == Abs(a.i - b.i) + Abs(a.j - b.j)

\* the grids one legal slide away from t: a tile 4-adjacent to the cell
\* that holds n*n moves into it
Slides(t, n) ==
    LET blank == CHOOSE c \in Cells(n) : t[c.j][c.i] = n * n
    IN  {Exchanged(t, c, blank) : c \in {d \in Cells(n) : Manhattan(d, blank) = 1}}

\* breadth-first search over legal slides
RECURSIVE BFS(_, _, _)
BFS(seen, frontier, n) ==
    IF frontier = {} THEN seen
    ELSE LET found == (UNION {Slides(g, n) : g \in frontier}) \ seen
         IN  BFS(seen \cup found, found, n)

\* the grids reachable from the solved grid by legal slides
ReachableFromSolved(n) == BFS({AscendingGrid(n)}, {AscendingGrid(n)}, n)

SlideInit ==
    \E n \in OracleSizes, r \in {"solved", "twin"} :
        /\ size = n
        /\ tiles_nb = n * n
        /\ tiles = (IF r = "solved" THEN AscendingGrid(n) ELSE TwinGrid(n))
        /\ is_shuffled = TRUE
        /\ app_state = "Test"
        /\ coords = <<>>
        /\ selected = {}
        /\ empty = {}
        /\ lerp = {}
        /\ pc = "idle"
        /\ it = 0
        /\ op = "insert_resource"
        /\ events = <<>>
        /\ nswaps = 0
        /\ root = r
        /\ NoFrame

\* one legal slide
Slide ==
    /\ \E g \in Slides(tiles, size) : tiles' = g
    /\ UNCHANGED <<size, tiles_nb, is_shuffled, app_state, coords, selected, empty,
                   lerp, pc, it, op, events, nswaps, root, tick_vars, gui_vars, order, probe>>

SlideNext == Slide

SlideSpec == SlideInit /\ [][SlideNext]_vars

\* a grid given by its row-major reading
GridOf(flat, n) == [cj \in 0..(n - 1) |-> [ci \in 0..(n - 1) |-> flat[cj * n + ci + 1]]]

----------------------------------------------------------------------------
(* Permutation grids: a Taquin built directly, as the unit tests build it, *)
(* on which swap_tiles is called with any two coordinates of the grid.     *)

GridSizes == {2, 3, 4}

GridInit ==
    \E n \in GridSizes :
        /\ size = n
        /\ tiles_nb = n * n
        /\ tiles = AscendingGrid(n)
        /\ is_shuffled = TRUE
        /\ app_state = "Test"
        /\ coords = <<>>
        /\ selected = {}
        /\ empty = {}
        /\ lerp = {}
        /\ pc = "idle"
        /\ it = 0
        /\ op = "insert_resource"
        /\ events = <<>>
        /\ nswaps = 0
        /\ root = "solved"
        /\ NoFrame

\* a call of swap_tiles(a, b)
swap_tiles_call(a, b) ==
    /\ nswaps < MaxSwaps
    /\ tiles' = swap_tiles(tiles, a, b)
    /\ nswaps' = nswaps + 1
    /\ op' = "swap_tiles"
    /\ UNCHANGED <<size, tiles_nb, is_shuffled, app_state, coords, selected, empty, lerp,
                   pc, it, events, root, tick_vars, gui_vars, order, probe>>

\* the calls explored from a grid: every pair of coordinates, a not after b
\* in row-major order (the exchange is the same for (a, b) and (b, a))
GridNext ==
    \E a \in Cells(size), b \in Cells(size) :
        /\ a.j * size + a.i <= b.j * size + b.i
        /\ swap_tiles_call(a, b)

GridSpec == GridInit /\ [][GridNext]_vars

----------------------------------------------------------------------------
(* Coordinates: two TileCoordinates of an N x N grid, built by             *)
(* TileCoordinates::new, the first of them moved by Add.                   *)

\* the tuples get_neighbours adds to a coordinate
Offsets == {<<1, 0>>, <<0, 1>>, <<-1, 0>>, <<0, -1>>}

CoordInit ==
    \E n \in GridSizes, ai \in 0..3, aj \in 0..3, bi \in 0..3, bj \in 0..3 :
        /\ ai < n /\ aj < n /\ bi < n /\ bj < n
        /\ size = n
        /\ tiles_nb = n * n
        /\ tiles = AscendingGrid(n)
        /\ is_shuffled = FALSE
        /\ app_state = "Test"
        /\ coords = <<TileCoordinates_new(ai, aj), TileCoordinates_new(bi, bj)>>
        /\ selected = {}
        /\ empty = {}
        /\ lerp = {}
        /\ pc = "idle"
        /\ it = 0
        /\ op = "new"
        /\ events = <<>>
        /\ nswaps = 0
        /\ root = "none"
        /\ NoFrame

\* self + (di, dj) on the first coordinate, kept when it is in the grid
Add_call(di, dj) ==
    /\ Add(coords[1], di, dj) \in Cells(size)
    /\ coords' = [coords EXCEPT ![1] = Add(coords[1], di, dj)]
    /\ op' = "add"
    /\ UNCHANGED <<size, tiles_nb, tiles, is_shuffled, app_state, selected, empty, lerp,
                   pc, it, events, nswaps, root, tick_vars, gui_vars, order, probe>>

CoordNext == \E d \in Offsets : Add_call(d[1], d[2])

CoordSpec == CoordInit /\ [][CoordNext]_vars

----------------------------------------------------------------------------
(* Play after a shuffle: the game for the sizes 2, 3 and 4 up to its first *)
(* shuffle, run to acceptance in one step, and the direction keys and      *)
(* Space before and after it.  The calls of swap_tiles of a run are        *)
(* bounded by MaxSwaps; the shuffle makes at most one of them (the other   *)
(* iterations of its batches draw no pair) and leaves one for a move.      *)

PlaySizes == {2, 3, 4}

\* the first shuffle of the game, in a frame where R was just released:
\* batches are run until do_shuffle returns true
Play_shuffle ==
    /\ app_state = "Running"
    /\ lerp = {}
    /\ pc = "idle"
    /\ ~is_shuffled
    /\ \E x \in Batches({[coords |-> coords, tiles |-> tiles, n |-> 0]},
                        IF "swap" \in DrawKinds(tiles_nb) /\ nswaps < MaxSwaps - 1
                        THEN 1 ELSE 0) :
          /\ do_shuffle_result(x.tiles, size, tiles_nb)
          /\ coords' = x.coords
          /\ tiles' = x.tiles
          /\ nswaps' = nswaps + x.n
    /\ is_shuffled' = TRUE
    /\ events' = <<"TaquinShuffled">>
    /\ op' = "shuffle"
    /\ UNCHANGED <<size, tiles_nb, app_state, selected, empty, lerp, pc, it, root>>

PlayInit == \E sz \in PlaySizes : Built(sz)

PlayNext ==
    \/ setup_tiles /\ UNCHANGED <<tick_vars, gui_vars, order, probe>>
    \/ Play_shuffle /\ UNCHANGED <<tick_vars, gui_vars, order, probe>>
    \/ \E key_code \in KeyCodes :
          move_tile_selection(key_code) /\ UNCHANGED <<tick_vars, gui_vars, order, probe>>
    \/ move_selected_tile /\ UNCHANGED <<tick_vars, gui_vars, order, probe>>
    \/ move_tile /\ UNCHANGED <<tick_vars, gui_vars, order, probe>>

PlaySpec == PlayInit /\ [][PlayNext]_vars

----------------------------------------------------------------------------
(* The retry loop of shuffle, one step per call of do_shuffle: a batch of  *)
(* tiles_nb^2 iterations, every draw of n1 and n2 explored.  The order in  *)
(* which the query yields the tile entities is the engine's; it is chosen  *)
(* when shuffle is entered and stays the same while shuffle runs.  The     *)
(* random choice is fair: a batch do_shuffle accepts, possible again and   *)
(* again, is drawn at some time.                                           *)

LoopSizes == {2}

\* the orders in which a query can yield the tile entities
QueryOrders ==
    {o \in [0..(tiles_nb - 1) -> Entities] :
        \A a, b \in 0..(tiles_nb - 1) : o[a] = o[b] => a = b}

\* the arrangement one iteration of do_shuffle's for loop leaves, for the
\* draws n1 and n2: tile1 = nth(n1), tile2 = nth(n2) of the rest
Drawn(x, n1, n2, ord, nb) ==
    IF DrawKind(n1, n2, nb) = "swap"
    THEN LET tile1 == ord[n1]
             tile2 == ord[n1 + n2 + 1]
             new_coords == [x.coords EXCEPT ![tile1] = x.coords[tile2],
                                            ![tile2] = x.coords[tile1]]
         IN  [coords |-> new_coords,
              tiles |-> swap_tiles(x.tiles, new_coords[tile1], new_coords[tile2])]
    ELSE x

\* the draws of n1 and n2 on which an iteration exchanges two tiles; on
\* every other draw it leaves the arrangement as it is
SwapDraws(nb) ==
    {d \in (0..(nb - 1)) \X (0..(nb - 1)) : DrawKind(d[1], d[2], nb) = "swap"}

\* the arrangements k iterations of the for loop can leave, from those of S
RECURSIVE BatchOutcomes(_, _, _, _)
BatchOutcomes(S, k, ord, nb) ==
    IF k = 0 THEN S
    ELSE UNION {IF after = S THEN S ELSE BatchOutcomes(after, k - 1, ord, nb) :
                   after \in {S \cup {Drawn(x, d[1], d[2], ord, nb) :
                                         x \in S, d \in SwapDraws(nb)}}}

\* the arrangements one call of do_shuffle can leave
do_shuffle_outcomes ==
    BatchOutcomes({[coords |-> coords, tiles |-> tiles]}, tiles_nb * tiles_nb, order, tiles_nb)

\* shuffle is entered in a frame where R was just released
Loop_shuffle_begin ==
    /\ shuffle_begin
    /\ \E o \in QueryOrders : order' = o
    /\ UNCHANGED <<tick_vars, gui_vars, probe>>

\* one pass of shuffle's loop: a call of do_shuffle that returns accepted
Loop_do_shuffle(accepted) ==
    /\ pc = "do_shuffle"
    /\ IF accepted
       THEN /\ is_shuffled' = TRUE
            /\ events' = <<"TaquinShuffled">>
            /\ pc' = "idle"
            /\ op' = "shuffle"
       ELSE /\ events' = <<>>
            /\ op' = "do_shuffle"
            /\ UNCHANGED <<is_shuffled, pc>>
    /\ it' = 0
    /\ UNCHANGED <<size, tiles_nb, app_state, selected, empty, lerp, nswaps, root,
                   tick_vars, gui_vars, order, probe>>
    /\ \E x \in do_shuffle_outcomes :
          /\ coords' = x.coords
          /\ tiles' = x.tiles
          /\ do_shuffle_result(x.tiles, size, tiles_nb) = accepted

\* do_shuffle returned false: the loop goes round
Loop_retry == Loop_do_shuffle(FALSE)

\* do_shuffle returned true: the loop is left
Loop_break == Loop_do_shuffle(TRUE)

LoopInit == \E sz \in LoopSizes : Built(sz)

LoopNext ==
    \/ setup_tiles /\ UNCHANGED <<tick_vars, gui_vars, order, probe>>
    \/ Loop_shuffle_begin
    \/ Loop_retry
    \/ Loop_break

LoopSpec == LoopInit /\ [][LoopNext]_vars /\ SF_vars(Loop_break)

----------------------------------------------------------------------------
(* The constructor over the whole range of its parameter: Taquin::new is   *)
(* given any i8 from 2 up, and TileValue::is_empty is called with the size  *)
(* of the Taquin it built on any i8 value.  size * size is an i8 product:  *)
(* where it exceeds 127 a build with overflow checks panics and a build    *)
(* without them wraps, and both builds are explored.                       *)

\* the range of i8
I8Values == (-128)..127

\* the sizes Taquin::new is called with: it tests none
NewSizes == 2..127

\* the i8 product x * x overflows
Overflows(x) == x * x \notin I8Values

\* Taquin::new(sz) panicked on the product: no Taquin was built
Panicked(sz) ==
    /\ size = sz
    /\ tiles_nb = 0
    /\ tiles = <<>>
    /\ is_shuffled = FALSE
    /\ app_state = "Panicked"
    /\ coords = <<>>
    /\ selected = {}
    /\ empty = {}
    /\ lerp = {}
    /\ pc = "idle"
    /\ it = 0
    /\ op = "panic"
    /\ events = <<>>
    /\ nswaps = 0
    /\ root = "none"
    /\ NoFrame

NewInit ==
    \E sz \in NewSizes :
        \/ Built(sz)
        \/ Overflows(sz) /\ Panicked(sz)

\* TileValue(v).is_empty(size), on the Taquin that was built
is_empty_call(v) ==
    /\ app_state = "SetupTiles"
    /\ probe' = [value |-> v, is_empty |-> is_empty(v, size)]
    /\ op' = "is_empty"
    /\ UNCHANGED <<size, tiles_nb, tiles, is_shuffled, app_state, coords, selected, empty,
                   lerp, pc, it, events, nswaps, root, tick_vars, gui_vars, order>>

NewNext == \E v \in I8Values : is_empty_call(v)

NewSpec == NewInit /\ [][NewNext]_vars

----------------------------------------------------------------------------
(* C1 *)

\* C1: for N = 2 and N = 3, is_solvable is true of a grid exactly when the
\* grid can be reached from the solved grid by legal slides.  Every grid
\* slid to from the solved grid is judged solvable and every grid slid to
\* from the twin grid is judged unsolvable (the two orbits are disjoint and
\* together hold all N*N! grids: 24 for N = 2, 362880 for N = 3); for N = 2
\* the verdict is also compared with the breadth-first search itself; and
\* the five grids of the unit tests get the verdicts the tests assert.
C1_SolvableIffReachable ==
    /\ is_solvable(tiles, size, tiles_nb) <=> (root = "solved")
    /\ size = 2 =>
          (is_solvable(tiles, size, tiles_nb) <=> tiles \in ReachableFromSolved(2))
    /\ is_solvable(GridOf(<<1, 2, 3, 4>>, 2), 2, 4)
    /\ is_solvable(GridOf(<<4, 3, 2, 1>>, 2), 2, 4)
    /\ is_solvable(GridOf(<<2, 3, 1, 4>>, 2), 2, 4)
    /\ ~is_solvable(GridOf(<<2, 1, 3, 4>>, 2), 2, 4)
    /\ ~is_solvable(GridOf(<<4, 1, 2, 3>>, 2), 2, 4)

\* a 3x3 grid reached by slides from the solved grid with the empty cell in
\* the top row, and a 2x2 grid reached from the twin grid
C1_Witness ==
    \/ /\ size = 3 /\ root = "solved" /\ tiles[0][1] = 9
       /\ is_solvable(tiles, size, tiles_nb)
    \/ /\ size = 2 /\ root = "twin" /\ tiles[0][0] = 4
       /\ ~is_solvable(tiles, size, tiles_nb)

----------------------------------------------------------------------------
(* Notions the statements about the game use *)

\* the events of a sequence
Sent(evs) == {evs[k] : k \in DOMAIN evs}

\* the coordinate of the selected tile and of the empty tile, when there is
\* exactly one of each
HasSelection == Cardinality(selected) = 1 /\ Cardinality(empty) = 1
SelectedCoordinates == coords[CHOOSE e \in selected : TRUE]
EmptyCoordinates == coords[CHOOSE e \in empty : TRUE]

\* the selected and the empty coordinate are 4-adjacent
Adjacent == HasSelection /\ Manhattan(SelectedCoordinates, EmptyCoordinates) = 1

\* the number of cells of the grid that hold the value v
Occurrences(v) ==
    Cardinality({c \in Cells(size) : tiles[c.j][c.i] = v})

----------------------------------------------------------------------------
(* C2 *)

\* C2: whenever shuffle's loop has just been left, the grid is not solved
\* and is solvable: is_solved() is false, the grid is not the ascending
\* one, and is_solvable() is true.
C2_ShuffleLeavesSolvableUnsolved ==
    op = "shuffle" =>
        /\ ~is_solved(tiles, size)
        /\ tiles # AscendingGrid(size)
        /\ is_solvable(tiles, size, tiles_nb)

\* a shuffle of the 3x3 puzzle has completed after two exchanges
C2_Witness ==
    op = "shuffle" /\ size = 3 /\ nswaps = 2 /\ events = <<"TaquinShuffled">>

----------------------------------------------------------------------------
(* C3 *)

\* C3: in every state from setup on, also between the iterations of a
\* shuffle, the grid is a permutation of 1..N*N: every value of 1..N*N,
\* the sentinel N*N among them, is held by exactly one cell.
C3_GridIsPermutation ==
    app_state = "Running" =>
        /\ DOMAIN tiles = 0..(size - 1)
        /\ \A cj \in DOMAIN tiles : DOMAIN tiles[cj] = 0..(size - 1)
        /\ \A v \in 1..(size * size) : Occurrences(v) = 1

\* a move press has exchanged two cells after a shuffle exchanged two
C3_Witness ==
    /\ app_state = "Running" /\ size = 3 /\ nswaps = 2
    /\ op = "move_selected_tile" /\ "TileMoved" \in Sent(events)
    /\ is_shuffled

----------------------------------------------------------------------------
(* C4 *)

\* C4: a handled move press changes the grid exactly when the selected and
\* the empty coordinate were 4-adjacent before it; then the new grid is the
\* old one with exactly those two cells exchanged, and otherwise every cell
\* is unchanged.
C4_MoveChangesGridIffAdjacent ==
    [][op' = "move_selected_tile" =>
        /\ (tiles' # tiles) <=> Adjacent
        /\ Adjacent => tiles' = Exchanged(tiles, SelectedCoordinates, EmptyCoordinates)
        /\ ~Adjacent => tiles' = tiles]_vars

\* a move press has moved a tile of the 3x3 puzzle
C4_Witness ==
    op = "move_selected_tile" /\ size = 3 /\ events = <<"TileMoved">> /\ lerp # {}

----------------------------------------------------------------------------
(* C5 *)

\* C5: a move press handled while the selected and the empty coordinate
\* are not 4-adjacent changes nothing and sends no event at all, neither
\* TileMoved nor TaquinSolved, also when the grid is in solved order.
C5_IgnoredMoveSendsNothing ==
    [][(op' = "move_selected_tile" /\ ~Adjacent) =>
        /\ tiles' = tiles
        /\ coords' = coords
        /\ selected' = selected
        /\ empty' = empty
        /\ is_shuffled' = is_shuffled
        /\ events' = <<>>]_vars

----------------------------------------------------------------------------
(* C6 *)

\* C6: on every grid the game reaches (N >= 2), from every coordinate that
\* is not the empty cell and for each of Left, Right, Up and Down,
\* get_next_selection_coordinates returns a coordinate of the grid whose
\* cell does not hold the sentinel N*N.
C6_NextSelectionNeverEmpty ==
    app_state = "Running" =>
        \A c \in Cells(size) :
            tiles[c.j][c.i] # size * size =>
                \A direction \in Directions :
                    LET r == get_next_selection_coordinates(tiles, size, c, direction)
                    IN  r \in Cells(size) /\ tiles[r.j][r.i] # size * size

\* the selected tile of the 3x3 puzzle has the empty cell one step away, at
\* the other end of its row: a step Left has to wrap and to skip it
C6_Witness ==
    /\ app_state = "Running" /\ size = 3 /\ pc = "idle" /\ HasSelection
    /\ SelectedCoordinates.i = 0
    /\ EmptyCoordinates = [i |-> 2, j |-> SelectedCoordinates.j]
    /\ get_next_selection_coordinates(tiles, size, SelectedCoordinates, "Left")
          = [i |-> 1, j |-> SelectedCoordinates.j]

----------------------------------------------------------------------------
(* C7 *)

\* C7: constructing the puzzle with a size below 2 fails and produces no
\* puzzle state: every Taquin that exists has a size of at least 2.
C7_ConstructedSizeAtLeastTwo == size >= 2

----------------------------------------------------------------------------
(* C8 *)

\* C8: in every Running state exactly one tile is selected, exactly one
\* tile is the empty tile, they are different tiles, and the cell at the
\* selected coordinate does not hold the sentinel N*N.
C8_OneSelectionOneEmpty ==
    app_state = "Running" =>
        /\ Cardinality(selected) = 1
        /\ Cardinality(empty) = 1
        /\ selected \cap empty = {}
        /\ SelectedCoordinates \in Cells(size)
        /\ tiles[SelectedCoordinates.j][SelectedCoordinates.i] # size * size

\* the selection has been stepped to another tile after a shuffle and a move
C8_Witness ==
    /\ app_state = "Running" /\ size = 3 /\ nswaps = 2 /\ is_shuffled
    /\ op = "move_tile_selection" /\ lerp # {}
    /\ selected # {0}

----------------------------------------------------------------------------
(* C9 *)

\* C9: on every permutation grid is_solved() is true exactly when the
\* row-major reading is 1, 2, ..., N*N; it is true of the ascending grid
\* and false as soon as two consecutive cells of the reading descend.
C9_SolvedIffAscending ==
    LET flat == Flatten(tiles, size)
    IN  /\ is_solved(tiles, size) <=> (\A k \in DOMAIN flat : flat[k] = k + 1)
        /\ is_solved(AscendingGrid(size), size)
        /\ (\E k \in 0..(size * size - 2) : flat[k] > flat[k + 1]) => ~is_solved(tiles, size)

\* a 3x3 grid whose only descent is its last pair of cells
C9_Witness ==
    /\ size = 3
    /\ Flatten(tiles, size) = [k \in 0..8 |-> IF k = 7 THEN 9 ELSE IF k = 8 THEN 8 ELSE k + 1]
    /\ ~is_solved(tiles, size)

----------------------------------------------------------------------------
(* C10 *)

\* C10: a move press handled while the selected and the empty coordinate
\* are 4-adjacent sends TileMoved, and sends TaquinSolved exactly when the
\* grid after the exchange is the ascending one.
C10_SolvedIffAscendingAfterMove ==
    [][(op' = "move_selected_tile" /\ Adjacent) =>
        /\ "TileMoved" \in Sent(events')
        /\ ("TaquinSolved" \in Sent(events')) <=> (tiles' = AscendingGrid(size))]_vars

\* a move has put the shuffled 3x3 grid back in ascending order
C10_Witness ==
    /\ op = "move_selected_tile" /\ size = 3 /\ is_shuffled
    /\ events = <<"TileMoved", "TaquinSolved">>
    /\ tiles = AscendingGrid(size)

----------------------------------------------------------------------------
(* C11 *)

\* C11: on_taquin_solved_play_tada, run for a TaquinSolved event, plays the
\* cue exactly when is_shuffled is true at that time; the reset of
\* is_shuffled runs after it in the same frame, which does not end before,
\* and leaves is_shuffled false.  Hence the cue is played at most once
\* after an accepted shuffle until the next one, and never before the first
\* accepted shuffle.
C11_CueOnlyWhenShuffledThenCleared ==
    /\ [](tada <= 1 /\ (tada > 0 => shuffled_once))
    /\ [][/\ op' = "on_taquin_solved_play_tada" =>
                tada' = (IF is_shuffled THEN tada + 1 ELSE tada)
          /\ op' = "on_taquin_solved_reset_is_shuffled" =>
                ("on_taquin_solved_play_tada" \in ran /\ ~is_shuffled')
          /\ (op' = "apply_deferred" /\ "on_taquin_solved_play_tada" \in ran) =>
                "on_taquin_solved_reset_is_shuffled" \in ran]_vars

\* the cue has been played for a solving move after a shuffle, and
\* is_shuffled has been cleared behind it
C11_Witness ==
    /\ op = "on_taquin_solved_reset_is_shuffled"
    /\ tada = 1 /\ shuffled_once /\ ~is_shuffled
    /\ nswaps = 2 /\ tiles = AscendingGrid(size)

----------------------------------------------------------------------------
(* C12 *)

\* C12: when setup_tiles has run and the Running state is entered, cell
\* (i, j) holds j*N + i + 1, so the grid reads 1, ..., N*N - 1 in row-major
\* order with the sentinel N*N in the last cell (N-1, N-1); the selected
\* tile is at (0, 0), the empty tile is at (N-1, N-1), and is_solved() is
\* true.
C12_SetupIsSolvedSelectionAtOrigin ==
    op = "setup_tiles" =>
        /\ app_state = "Running"
        /\ \A c \in Cells(size) : tiles[c.j][c.i] = c.j * size + c.i + 1
        /\ tiles[size - 1][size - 1] = size * size
        /\ HasSelection
        /\ SelectedCoordinates = TileCoordinates_new(0, 0)
        /\ EmptyCoordinates = TileCoordinates_new(size - 1, size - 1)
        /\ get_empty_tile_coordinates(tiles, size, tiles_nb) = EmptyCoordinates
        /\ is_solved(tiles, size)
        /\ ~is_shuffled

\* the 3x3 puzzle has just been set up
C12_Witness ==
    op = "setup_tiles" /\ size = 3 /\ app_state = "Running" /\ tiles[2][2] = 9

----------------------------------------------------------------------------
(* C13 *)

\* C13: the free function is_solvable of main.rs gives the verdicts its
\* tests assert on 2x2 grids: true for 1,2,3,4 with the empty position
\* (1, 1), true for 4,1,2,3 with the empty position (0, 0), and false for
\* 2,1,3,4 with the empty position (1, 1).
C13_SnapshotVerdictsOfTests ==
    /\ tiles = GridOf(<<1, 2, 3, 4>>, 2) =>
            main_is_solvable(tiles, size, tiles_nb, TilePosition_new(1, 1))
    /\ tiles = GridOf(<<4, 1, 2, 3>>, 2) =>
            main_is_solvable(tiles, size, tiles_nb, TilePosition_new(0, 0))
    /\ tiles = GridOf(<<2, 1, 3, 4>>, 2) =>
            ~main_is_solvable(tiles, size, tiles_nb, TilePosition_new(1, 1))

----------------------------------------------------------------------------
(* C14 *)

\* the row-major reading of the grid with the sentinel cell left out
WithoutSentinel(t, n) ==
    SelectSeq([k \in 1..(n * n) |-> t[(k - 1) \div n][(k - 1) % n]],
              LAMBDA v : v # n * n)

\* the number of pairs of that reading in which the earlier value is the
\* larger one
Inversions(t, n) ==
    LET s == WithoutSentinel(t, n)
    IN  Cardinality({p \in (DOMAIN s) \X (DOMAIN s) : p[1] < p[2] /\ s[p[1]] > s[p[2]]})

\* the row, counted from the top from 0, of the cell that holds N*N
SentinelRow(t, n) == (CHOOSE c \in Cells(n) : t[c.j][c.i] = n * n).j

\* the parity rule
ParityRule(t, n) ==
    IF n % 2 = 1 THEN Inversions(t, n) % 2 = 0
    ELSE (Inversions(t, n) % 2 = 0) # (SentinelRow(t, n) % 2 = 0)

\* C14: for N = 2, 3, 4 and every permutation grid, is_solvable() equals
\* the parity rule: for odd N it is true exactly when the inversion count is
\* even; for even N, with r the row of the sentinel counted from the top
\* from 0, it is true exactly when (the inversion count is even) differs
\* from (r is even).
C14_SolvableIsParityRule ==
    is_solvable(tiles, size, tiles_nb) <=> ParityRule(tiles, size)

\* a 4x4 grid with the sentinel in an even row and an odd inversion count,
\* judged solvable
C14_Witness ==
    /\ size = 4 /\ nswaps = 2
    /\ SentinelRow(tiles, size) = 2
    /\ Inversions(tiles, size) % 2 = 1
    /\ is_solvable(tiles, size, tiles_nb)

----------------------------------------------------------------------------
(* C15 *)

\* C15: on every permutation grid get_inversion_count() is the number of
\* pairs of positions i < j of the row-major reading with value[i] >
\* value[j] where neither cell holds the sentinel N*N: it equals the number
\* of inversions of the reading with the sentinel cell left out, and it is
\* the same whatever cell the sentinel is in.
C15_InversionCountSkipsSentinel ==
    LET flat == Flatten(tiles, size)
        pairs == {p \in (DOMAIN flat) \X (DOMAIN flat) :
                    /\ p[1] < p[2]
                    /\ flat[p[1]] # size * size
                    /\ flat[p[2]] # size * size
                    /\ flat[p[1]] > flat[p[2]]}
    IN  /\ get_inversion_count(tiles, size, tiles_nb) = Cardinality(pairs)
        /\ get_inversion_count(tiles, size, tiles_nb) = Inversions(tiles, size)

\* a 3x3 grid with the sentinel in its first cell, ahead of eight smaller
\* values, and a single inversion among those
C15_Witness ==
    /\ size = 3 /\ tiles[0][0] = 9
    /\ get_inversion_count(tiles, size, tiles_nb) = 1

----------------------------------------------------------------------------
(* C16 *)

\* C16: a move press handled while the selected and the empty coordinate
\* are 4-adjacent exchanges the two coordinates: afterwards the selected
\* tile is at the coordinate the empty tile had and the empty tile at the
\* coordinate the selected tile had; the value that was in the selected
\* cell is in the new selected cell, the sentinel is in the new empty cell,
\* the same two entities are the selected and the empty one, and exactly
\* one TileMoved is sent.
C16_MoveExchangesCoordinates ==
    [][(op' = "move_selected_tile" /\ Adjacent) =>
        LET s == SelectedCoordinates
            e == EmptyCoordinates
        IN  /\ selected' = selected
            /\ empty' = empty
            /\ coords'[CHOOSE x \in selected : TRUE] = e
            /\ coords'[CHOOSE x \in empty : TRUE] = s
            /\ tiles'[e.j][e.i] = tiles[s.j][s.i]
            /\ tiles'[s.j][s.i] = size * size
            /\ Count(events', "TileMoved") = 1]_vars

\* the selected tile of the 2x2 puzzle has been moved into the last cell
C16_Witness ==
    /\ op = "move_selected_tile" /\ size = 2 /\ HasSelection
    /\ Count(events, "TileMoved") = 1
    /\ SelectedCoordinates = TileCoordinates_new(1, 1)
    /\ tiles[EmptyCoordinates.j][EmptyCoordinates.i] = 4

----------------------------------------------------------------------------
(* C17 *)

\* the cell one step from c in a direction, modulo n on the axis of the
\* direction
Wrapped(c, n, direction) ==
    CASE direction = "Left"  -> [i |-> (c.i + n - 1) % n, j |-> c.j]
      [] direction = "Right" -> [i |-> (c.i + 1) % n, j |-> c.j]
      [] direction = "Up"    -> [i |-> c.i, j |-> (c.j + n - 1) % n]
      [] direction = "Down"  -> [i |-> c.i, j |-> (c.j + 1) % n]

\* C17: on every grid the game reaches (N >= 2), for every coordinate of a
\* tile and each of Left, Right, Up and Down, the loop of
\* get_next_selection_coordinates makes at most two passes and returns the
\* cell one step away modulo N on the axis of the direction, the other
\* axis unchanged, or, when that cell is the empty one, the cell one step
\* further, again modulo N; for every other key the coordinate is returned
\* unchanged.
C17_NextSelectionWrapsAndSkips ==
    app_state = "Running" =>
        \A c \in {d \in Cells(size) : tiles[d.j][d.i] # size * size} :
            /\ \A direction \in Directions :
                  LET one == Wrapped(c, size, direction)
                      expected == IF tiles[one.j][one.i] = size * size
                                  THEN Wrapped(one, size, direction)
                                  ELSE one
                  IN  /\ get_next_selection_coordinates(tiles, size, c, direction) = expected
                      /\ SelectionLoopPasses(tiles, size, c, direction) <= 2
            /\ \A key_code \in KeyCodes \ Directions :
                  get_next_selection_coordinates(tiles, size, c, key_code) = c

\* in the 2x2 puzzle the empty cell is the only other cell of the row of
\* the selected tile: a step Right skips it, wraps, and comes back to the
\* selected tile after two passes
C17_Witness ==
    /\ app_state = "Running" /\ size = 2 /\ pc = "idle" /\ HasSelection
    /\ SelectedCoordinates = TileCoordinates_new(0, 0)
    /\ EmptyCoordinates = TileCoordinates_new(1, 0)
    /\ tiles[0][1] = 4
    /\ get_next_selection_coordinates(tiles, size, SelectedCoordinates, "Right")
          = SelectedCoordinates
    /\ SelectionLoopPasses(tiles, size, SelectedCoordinates, "Right") = 2

----------------------------------------------------------------------------
(* C18 *)

\* C18: for all coordinates a, b of an N x N grid, a.is_neighbour_of(b) is
\* true exactly when |a.i - b.i| + |a.j - b.j| = 1; the relation is
\* symmetric and irreflexive, and it does not wrap: the first and the last
\* cell of a row or of a column are not neighbours when N > 2.
C18_NeighbourIsManhattanOne ==
    LET a == coords[1]
        b == coords[2]
    IN  /\ is_neighbour_of(a, b) <=> (Abs(a.i - b.i) + Abs(a.j - b.j) = 1)
        /\ is_neighbour_of(a, b) <=> is_neighbour_of(b, a)
        /\ ~is_neighbour_of(a, a)
        /\ (size > 2 /\ a.j = b.j /\ a.i = 0 /\ b.i = size - 1) => ~is_neighbour_of(a, b)
        /\ (size > 2 /\ a.i = b.i /\ a.j = 0 /\ b.j = size - 1) => ~is_neighbour_of(a, b)

\* a coordinate has been moved to the first cell of a row of the 3x3 grid
\* while the other is the last cell of that row: they are not neighbours
C18_Witness ==
    /\ op = "add" /\ size = 3
    /\ coords[1] = TileCoordinates_new(0, 1)
    /\ coords[2] = TileCoordinates_new(2, 1)
    /\ ~is_neighbour_of(coords[1], coords[2])
    /\ is_neighbour_of(coords[1], TileCoordinates_new(0, 0))

----------------------------------------------------------------------------
(* C19 *)

\* C19: on every grid on which swap_tiles is called and for any two
\* coordinates a, b of the grid, adjacent or not, swap_tiles(a, b) puts the
\* value of cell b into cell a and the value of cell a into cell b and
\* leaves every other cell as it was; swap_tiles(a, a) leaves the grid
\* unchanged and a second swap_tiles(a, b) restores the grid.  A call
\* changes neither size, tiles_nb nor is_shuffled, and at most two cells.
C19_SwapExchangesTwoCells ==
    /\ [](nswaps < MaxSwaps =>
            \A a \in Cells(size), b \in Cells(size) :
                LET t1 == swap_tiles(tiles, a, b)
                IN  /\ t1[a.j][a.i] = tiles[b.j][b.i]
                    /\ t1[b.j][b.i] = tiles[a.j][a.i]
                    /\ \A c \in Cells(size) \ {a, b} : t1[c.j][c.i] = tiles[c.j][c.i]
                    /\ DOMAIN t1 = DOMAIN tiles
                    /\ \A cj \in DOMAIN tiles : DOMAIN t1[cj] = DOMAIN tiles[cj]
                    /\ a = b => t1 = tiles
                    /\ swap_tiles(t1, a, b) = tiles)
    /\ [][op' = "swap_tiles" =>
            /\ size' = size
            /\ tiles_nb' = tiles_nb
            /\ is_shuffled' = is_shuffled
            /\ Cardinality({c \in Cells(size) : tiles'[c.j][c.i] # tiles[c.j][c.i]}) <= 2]_vars

\* swap_tiles has exchanged two opposite corners of the 4x4 grid
C19_Witness ==
    /\ op = "swap_tiles" /\ size = 4 /\ nswaps = 1 /\ is_shuffled
    /\ tiles = Exchanged(AscendingGrid(4), TileCoordinates_new(0, 0), TileCoordinates_new(3, 3))

----------------------------------------------------------------------------
(* C20 *)

\* C20: shuffle leaves its loop only on a candidate do_shuffle accepted (not
\* solved and solvable), and then sets is_shuffled to true and sends
\* exactly one TaquinShuffled; the iterations of a batch and a rejected
\* batch send no event and leave is_shuffled as it was, so TaquinShuffled
\* is sent, and is_shuffled becomes true, by nothing but an acceptance.
C20_ShuffledOnlyOnAcceptance ==
    [][/\ op' = "shuffle" =>
            /\ pc = "do_shuffle" /\ pc' = "idle"
            /\ ~is_solved(tiles', size) /\ is_solvable(tiles', size, tiles_nb)
            /\ is_shuffled'
            /\ events' = <<"TaquinShuffled">>
       /\ op' = "do_shuffle" =>
            /\ events' = <<>>
            /\ is_shuffled' = is_shuffled
       /\ "TaquinShuffled" \in Sent(events') => op' = "shuffle"
       /\ (is_shuffled' /\ ~is_shuffled) => op' = "shuffle"]_vars

\* a shuffle of the 2x2 puzzle has been accepted after one exchange
C20_Witness ==
    /\ op = "shuffle" /\ size = 2 /\ nswaps = 1 /\ pc = "idle"
    /\ is_shuffled /\ Count(events, "TaquinShuffled") = 1

----------------------------------------------------------------------------
(* C21 *)

\* C21: the retry loop of shuffle terminates.  While the loop is running,
\* whatever the grid and the order of the query, some batch of draws makes
\* do_shuffle return true; and under fair random choice the loop that has
\* been entered is left, with is_shuffled set and TaquinShuffled sent.
C21_ShuffleLoopTerminates ==
    /\ [](pc = "do_shuffle" =>
            \E x \in do_shuffle_outcomes : do_shuffle_result(x.tiles, size, tiles_nb))
    /\ (pc = "do_shuffle" ~> (pc = "idle" /\ op = "shuffle" /\ is_shuffled))

\* the loop has gone round at least once (a grid that is not solvable is
\* left by a rejected batch only) and is still running
C21_Witness ==
    /\ pc = "do_shuffle"
    /\ op = "do_shuffle"
    /\ ~is_solvable(tiles, size, tiles_nb)

----------------------------------------------------------------------------
(* C22 *)

\* the coordinates with which the loop of get_next_selection_coordinates
\* indexes the grid, from the coordinate c; the loop is followed no further
\* than an index outside the grid
RECURSIVE IndexedBySelectionLoop(_, _, _, _)
IndexedBySelectionLoop(t, n, c, direction) ==
    LET coordinates == StepCoordinates(c, n, direction)
    IN  IF coordinates \notin Cells(n) THEN {coordinates}
        ELSE IF ~is_empty(t[coordinates.j][coordinates.i], n) THEN {coordinates}
        ELSE {coordinates} \cup IndexedBySelectionLoop(t, n, coordinates, direction)

\* C22: in the Running state every coordinate is inside the grid: the
\* coordinates of the tiles (those of the selected and of the empty tile
\* among them, and so the two that move_selected_tile and do_shuffle pass
\* to swap_tiles), and every coordinate with which
\* get_next_selection_coordinates indexes the grid from the selected tile,
\* in each direction.
C22_CoordinatesInsideGrid ==
    app_state = "Running" =>
        /\ \A e \in Entities : coords[e] \in Cells(size)
        /\ \A e \in selected, direction \in Directions :
              IndexedBySelectionLoop(tiles, size, coords[e], direction) \subseteq Cells(size)

\* after a move on a shuffled grid, the selected tile is in the last
\* column with the empty tile in the first: Right wraps and skips it
C22_Witness ==
    /\ app_state = "Running"
    /\ pc = "idle"
    /\ is_shuffled
    /\ op = "move_selected_tile"
    /\ nswaps > 0
    /\ HasSelection
    /\ SelectedCoordinates.i = size - 1
    /\ EmptyCoordinates.i = 0
    /\ EmptyCoordinates.j = SelectedCoordinates.j

----------------------------------------------------------------------------
(* C23 *)

\* C23: once the tiles are spawned, the coordinate stored on the EmptyTile
\* entity is the one get_empty_tile_coordinates returns, and the
\* coordinates stored on the tile entities are pairwise distinct and cover
\* the N*N cells of the grid; in every state, so after every move and after
\* every exchange of a shuffle.
C23_EntitiesMatchGrid ==
    app_state = "Running" =>
        /\ Cardinality(empty) = 1
        /\ \A e \in empty : coords[e] = get_empty_tile_coordinates(tiles, size, tiles_nb)
        /\ \A e1, e2 \in Entities : coords[e1] = coords[e2] => e1 = e2
        /\ {coords[e] : e \in Entities} = Cells(size)

\* a move has just exchanged the empty tile and its neighbour, after the
\* exchanges of an accepted shuffle, and the empty tile is away from the
\* cell it was spawned on
C23_Witness ==
    /\ app_state = "Running"
    /\ op = "move_selected_tile"
    /\ Sent(events) = {"TileMoved"}
    /\ is_shuffled
    /\ nswaps >= 2
    /\ EmptyCoordinates # TileCoordinates_new(size - 1, size - 1)

----------------------------------------------------------------------------
(* C24 *)

\* C24: for N = 2, 3 and 4, once a shuffle has been accepted is_solvable()
\* is true in every state the direction keys and Space lead to, and a step
\* that slides a tile into the empty cell leaves the verdict of
\* is_solvable() as it was.
C24_SlideKeepsSolvable ==
    /\ [](is_shuffled => is_solvable(tiles, size, tiles_nb))
    /\ [][app_state = "Running" /\ tiles' # tiles /\ tiles' \in Slides(tiles, size) =>
            (is_solvable(tiles', size, tiles_nb) <=> is_solvable(tiles, size, tiles_nb))]_vars

\* a 4x4 grid an accepted shuffle left, after a move that slid a tile up or
\* down into the empty cell
C24_Witness ==
    /\ size = 4
    /\ is_shuffled
    /\ op = "move_selected_tile"
    /\ Sent(events) = {"TileMoved"}
    /\ HasSelection
    /\ SelectedCoordinates.i = EmptyCoordinates.i
    /\ is_solvable(tiles, size, tiles_nb)

----------------------------------------------------------------------------
(* C25 *)

\* C25: whenever on_taquin_solved_play_tada spawns the cue (it runs on a
\* TaquinSolved event and finds is_shuffled true), the grid is solved at
\* that moment, whatever the order of the unordered systems in the frame
\* and whatever keys were released in the frames before.
C25_CueOnlyOnSolvedGrid ==
    [][(op' = "on_taquin_solved_play_tada" /\ tada' = tada + 1) =>
            is_solved(tiles, size)]_vars

----------------------------------------------------------------------------
(* C26 *)

\* C26: at most one tile carries TileLerp at any time, the insertion queued
\* in the frame counted with it; no step changes the grid or the
\* coordinates of the tiles while a tile carries TileLerp; so whenever a
\* tile is animating, the query of move_tile has its single match and
\* move_tile can run in the frame.
C26_OneAnimationAtATime ==
    /\ [](/\ Cardinality(lerp \cup Queued("insert_TileLerp")) <= 1
          /\ (lerp # {} => Cardinality(lerp) = 1)
          /\ (lerp # {} /\ "move_tile" \notin ran => ENABLED Update_move_tile))
    /\ [][(tiles' # tiles \/ coords' # coords) => lerp = {}]_vars

\* move_tile has found the animating tile of a shuffled game and queued
\* the removal of its TileLerp
C26_Witness ==
    /\ op = "move_tile"
    /\ is_shuffled
    /\ Cardinality(lerp) = 1
    /\ Queued("remove_TileLerp") = lerp

----------------------------------------------------------------------------
(* C27 *)

\* C27: once every event sent has been handled by its listener, the move
\* counter of the GUI is the number of TileMoved sent since the last
\* TaquinShuffled or TaquinSolved: 0 after a shuffle, one more after each
\* move, 0 after a solving move, whatever the order of the listeners.
C27_CounterIsMovesSinceReset ==
    (\A l \in GuiListeners : gui_unread[l] = 0) => move_counter = moved_since

----------------------------------------------------------------------------
(* C28 *)

\* C28: for every size N >= 2 with which Taquin::new built a Taquin, N * N
\* fits an i8, tiles_nb is N * N, and is_empty(N) is true of a TileValue
\* exactly when the value is N * N.
C28_SquareFitsI8 ==
    (app_state = "SetupTiles" /\ size >= 2) =>
        /\ ~Overflows(size)
        /\ tiles_nb = size * size
        /\ probe # <<>> => (probe.is_empty <=> probe.value = size * size)

====
